---- MODULE Spec2Model ----
(***************************************************************************)
(* equinox.filter_shard_map (src/equinox/_shard_map.py): the filtering     *)
(* wrapper around the distributed-map primitive.                           *)
(*                                                                         *)
(* PyTrees are tagged records:                                             *)
(*   [kind |-> "arr", dims, data, vma]   a numeric array (rank 0 or 1);    *)
(*                                       vma: varies over the mesh axis    *)
(*   [kind |-> "obj", val]               a non-array leaf (a string, ...)  *)
(*   [kind |-> "none"]                   Python None (the placeholder)     *)
(*   [kind |-> "tuple", items]           a tuple node                      *)
(*   [kind |-> "static", value]          equinox Static: a node, no leaves *)
(*   [kind |-> "P", axes]                jax.sharding.PartitionSpec        *)
(*   [kind |-> "raise", err]             an exception leaving a call       *)
(***************************************************************************)
EXTENDS Integers, Sequences, FiniteSets, TLC

\* ------------------------------------------------------------------ bounds

\* Devices of the one-axis mesh ("batch",); the tests assert at least 2.
NumDevices == 2
\* Elements of a sharded input held by each device.
PerShard == 2
\* Most positional arguments of one call.
MaxArgs == 2
\* Most keyword arguments of one call.
MaxKwargs == 2

Shards == 1..NumDevices

\* ------------------------------------------------------------------ values

None == [kind |-> "none"]
Arr(dims, data, vma) == [kind |-> "arr", dims |-> dims, data |-> data, vma |-> vma]
Obj(v) == [kind |-> "obj", val |-> v]
Tup(items) == [kind |-> "tuple", items |-> items]
P(axes) == [kind |-> "P", axes |-> axes]
Raise(e) == [kind |-> "raise", err |-> e]

\* `Static(value)`: a Module whose only field is static, so a PyTree without leaves.
Static(v) == [kind |-> "static", value |-> v]

\* `sentinel`: the marker of "no callable given yet".
sentinel == "sentinel"

is_array(x) == x.kind = "arr"

IsRaise(x) == x.kind = "raise"

RECURSIVE filter(_, _)
\* equinox.filter(tree, is_array, inverse): the leaves is_array picks (inverse: the
\* others) stay, the rest become None; nodes keep their shape.
filter(tree, inverse) ==
    CASE tree.kind = "tuple" ->
           Tup([i \in 1..Len(tree.items) |-> filter(tree.items[i], inverse)])
      [] tree.kind \in {"arr", "obj"} ->
           IF is_array(tree) # inverse THEN tree ELSE None
      [] OTHER -> tree

\* equinox.partition(tree, is_array) -> (dynamic, static).
partition(tree) == <<filter(tree, FALSE), filter(tree, TRUE)>>

RECURSIVE combine(_, _)
\* equinox.combine(a, b): position by position the first value that is not None.
combine(a, b) ==
    IF a.kind = "tuple" /\ b.kind = "tuple" /\ Len(a.items) = Len(b.items)
    THEN Tup([i \in 1..Len(a.items) |-> combine(a.items[i], b.items[i])])
    ELSE IF a.kind = "none" THEN b ELSE a

RECURSIVE Leaves(_)
\* The leaves of a tree, left to right (None and Static hold none).
Leaves(tree) ==
    CASE tree.kind = "tuple" ->
           IF tree.items = <<>> THEN <<>>
           ELSE Leaves(Head(tree.items)) \o Leaves(Tup(Tail(tree.items)))
      [] tree.kind \in {"arr", "obj"} -> <<tree>>
      [] OTHER -> <<>>

HasObjLeaf(tree) == \E i \in 1..Len(Leaves(tree)) : Leaves(tree)[i].kind = "obj"

\* ---------------------------------------------- the wrapped callables (tests)

RECURSIVE SumSeq(_)
SumSeq(s) == IF s = <<>> THEN 0 ELSE Head(s) + SumSeq(Tail(s))

\* The callables that get wrapped: the three of src/tests/test_shard_map.py, a
\* callable returning its arguments, and one whose non-array output names its shard.
FunNames == {"mul", "add1_meta", "psum_sum", "ident", "shard_tag"}

\* lambda w, x: x * w  (test_basic_sharding), with numpy broadcasting.
fun_mul(args) ==
    IF Len(args) # 2 \/ ~is_array(args[1]) \/ ~is_array(args[2])
    THEN Raise("TypeError")
    ELSE LET w == args[1]
             x == args[2]
             n == IF Len(x.data) >= Len(w.data) THEN Len(x.data) ELSE Len(w.data)
             at(a, k) == IF a.dims = 0 THEN a.data[1] ELSE a.data[k]
         IN IF w.dims = 1 /\ x.dims = 1 /\ Len(w.data) # Len(x.data)
            THEN Raise("TypeError")
            ELSE Arr(IF w.dims > x.dims THEN w.dims ELSE x.dims,
                     [k \in 1..n |-> at(x, k) * at(w, k)],
                     w.vma \/ x.vma)

\* def f(x): return x + 1.0, "metadata"  (test_non_array_output)
fun_add1_meta(args) ==
    IF Len(args) # 1 \/ ~is_array(args[1])
    THEN Raise("TypeError")
    ELSE Tup(<<Arr(args[1].dims,
                   [k \in 1..Len(args[1].data) |-> args[1].data[k] + 1],
                   args[1].vma),
               Obj("metadata")>>)

\* def f(x): return lax.psum(jnp.sum(x), "batch")  (test_collectives); allargs[j] are
\* the arguments of shard j, whose local sums the collective adds up.
fun_psum_sum(args, allargs) ==
    IF Len(args) # 1 \/ ~is_array(args[1])
    THEN Raise("TypeError")
    ELSE Arr(0,
             <<SumSeq([j \in Shards |-> SumSeq(allargs[j][1].data)])>>,
             FALSE)

\* lambda *args: args
fun_ident(args) == Tup(args)

\* def f(x): return x, <an object that differs from shard to shard>
fun_shard_tag(args, i) ==
    IF Len(args) # 1 THEN Raise("TypeError") ELSE Tup(<<args[1], Obj("shard" \o ToString(i))>>)

\* fun(*args) on shard i.
CallFun(fun, args, i, allargs) ==
    CASE fun = "mul" -> fun_mul(args)
      [] fun = "add1_meta" -> fun_add1_meta(args)
      [] fun = "psum_sum" -> fun_psum_sum(args, allargs)
      [] fun = "ident" -> fun_ident(args)
      [] fun = "shard_tag" -> fun_shard_tag(args, i)

\* ------------------------------------------- the distributed-map primitive

\* jax.make_mesh((num_devices,), ("batch",))  (tests, _make_mesh)
TheMesh == [kind |-> "mesh", axes |-> {"batch"}, size |-> NumDevices]

RECURSIVE IsPrefix(_, _)
\* spec is a tree prefix of tree: a PartitionSpec stands for a whole subtree.
IsPrefix(spec, tree) ==
    IF spec.kind = "P" THEN TRUE
    ELSE /\ spec.kind = "tuple"
         /\ tree.kind = "tuple"
         /\ Len(spec.items) = Len(tree.items)
         /\ \A k \in 1..Len(spec.items) : IsPrefix(spec.items[k], tree.items[k])

RECURSIVE Broadcast(_, _)
RECURSIVE BroadcastItems(_, _, _)
\* The PartitionSpec of every leaf of tree, left to right.
Broadcast(spec, tree) ==
    IF spec.kind = "P" THEN [k \in 1..Len(Leaves(tree)) |-> spec]
    ELSE BroadcastItems(spec.items, tree.items, 1)

BroadcastItems(specs, trees, k) ==
    IF k > Len(trees) THEN <<>>
    ELSE Broadcast(specs[k], trees[k]) \o BroadcastItems(specs, trees, k + 1)

SeqToSet(s) == {s[k] : k \in 1..Len(s)}

\* What the primitive rejects in a tree given with specs (the first that applies), or "ok".
\* output: the tree is the mapped function's result, whose replicated leaves must not vary.
SpecError(spec, tree, mesh, output, check_vma) ==
    IF ~IsPrefix(spec, tree) THEN "ValueError:prefix"
    ELSE LET L == Leaves(tree)
             S == Broadcast(spec, tree)
             I == 1..Len(L)
         IN CASE \E k \in I : L[k].kind = "obj" -> "TypeError:leaf"
              [] \E k \in I : ~(SeqToSet(S[k].axes) \subseteq mesh.axes) -> "ValueError:axis"
              [] \E k \in I : Len(S[k].axes) > L[k].dims -> "ValueError:rank"
              [] \E k \in I : S[k].axes # <<>> /\ ~output /\ Len(L[k].data) % mesh.size # 0 ->
                   "ValueError:divisible"
              [] \E k \in I : output /\ check_vma /\ S[k].axes = <<>> /\ L[k].vma ->
                   "ValueError:vma"
              [] OTHER -> "ok"

SubSpec(spec, k) == IF spec.kind = "P" THEN spec ELSE spec.items[k]

RECURSIVE ShardOf(_, _, _, _)
\* The part of tree that shard i of n receives under spec.
ShardOf(spec, tree, i, n) ==
    CASE tree.kind = "tuple" ->
           Tup([k \in 1..Len(tree.items) |-> ShardOf(SubSpec(spec, k), tree.items[k], i, n)])
      [] tree.kind = "arr" ->
           IF spec.axes = <<>> THEN tree
           ELSE LET c == Len(tree.data) \div n
                IN Arr(tree.dims, SubSeq(tree.data, (i - 1) * c + 1, i * c), TRUE)
      [] OTHER -> tree

RECURSIVE Concat(_, _)
\* outs[1].data \o ... \o outs[n].data
Concat(outs, n) == IF n = 0 THEN <<>> ELSE Concat(outs, n - 1) \o outs[n].data

RECURSIVE Gather(_, _, _)
\* The shards' results assembled under spec: a leaf sharded over an axis is the
\* concatenation of the shards' leaves, anything else is what shard canon returned.
Gather(spec, outs, canon) ==
    LET t == outs[canon]
    IN CASE t.kind = "tuple" ->
              Tup([k \in 1..Len(t.items) |->
                     Gather(SubSpec(spec, k), [i \in Shards |-> outs[i].items[k]], canon)])
         [] t.kind = "arr" ->
              IF spec.axes = <<>> THEN Arr(t.dims, t.data, FALSE)
              ELSE Arr(t.dims, Concat(outs, NumDevices), FALSE)
         [] OTHER -> t

\* ------------------------------------------------------------------- state

VARIABLES
    wrapper,   \* the Wrapper Instance, None before filter_shard_map made it
    pending,   \* what filter_shard_map returned when given no callable, else None
    made,      \* how the wrapper was asked for: [kind, fun, kw, curried], else None
    canon,     \* the shard whose result the primitive returns for unsharded output
    got,       \* per instance, what attribute access returned, None before
    last,      \* the call the caller is looking at: [kind, via, args, kwargs, ambient, res]
    first      \* where calls are compared: the first call, and whether it was made again

\* The normalisation layer and the State its caller threads from call to call.
VARIABLES
    bn,        \* the BatchNorm layer, None before BatchNorm(...) made it
    state,     \* the State the caller holds: first that of the layer's initial values,
               \* then the one the last call returned
    trained,   \* how many calls with inference false were made on the layer
    ncalls,    \* how many calls were made on the layer
    bnlast     \* the last call: [kind, x, inference, before, batch, out, after]

bnvars == <<bn, state, trained, ncalls, bnlast>>

vars == <<wrapper, pending, made, canon, got, last, first, bn, state, trained, ncalls, bnlast>>

Scalar(v) == Arr(0, <<v>>, FALSE)
Ones(n) == Arr(1, [k \in 1..n |-> 1], FALSE)
Arange(n) == Arr(1, [k \in 1..n |-> k - 1], FALSE)

\* Two instances of a class that has the wrapper as an attribute: Modules with an
\* array field and a non-array field.
Owner1 == Tup(<<Scalar(2), Obj("owner1")>>)
Owner2 == Tup(<<Scalar(3), Obj("owner2")>>)
Instances == [o1 |-> Owner1, o2 |-> Owner2, class |-> None]

\* ------------------------------------------------------ _ShardMapWrapper

\* The dataclass _ShardMapWrapper and its six fields.
ShardMapWrapper(fun, out_specs, in_specs, mesh, axis_names, check_vma) ==
    [kind |-> "wrapper", _fun |-> fun, _out_specs |-> out_specs, _in_specs |-> in_specs,
     _mesh |-> mesh, _axis_names |-> axis_names, _check_vma |-> check_vma]

\* A check that lets a single keyword argument through.
kwargs_rejected_many(kwargs) == Len(kwargs) > 1

\* if len(kwargs) != 0: raise RuntimeError(...)
kwargs_rejected(kwargs) == Len(kwargs) # 0

\* Static arguments kept from the first call and used again in the later ones.
static_args_cached(args) ==
    IF first.kind = "call" /\ first.kwargs = <<>>
    THEN partition(Tup(IF first.via \in {"o1", "o2"}
                       THEN <<Instances[first.via]>> \o first.args
                       ELSE first.args))[2]
    ELSE partition(Tup(args))[2]

\* dynamic_args, static_args = partition(args, is_array)
dynamic_args(args) == partition(Tup(args))[1]

static_args(args) == partition(Tup(args))[2]

\* _fun_wrapper(_dynamic_args) on shard i, a closure over self and static_args;
\* allparts[j] is the argument tuple (dynamic_args,) of shard j.
fun_wrapper(self, captured, _dynamic_args, i, allparts) ==
    LET _args == combine(_dynamic_args, captured)
        _out == CallFun(self._fun, _args.items, i,
                        [j \in Shards |-> combine(allparts[j].items[1], captured).items])
    IN IF IsRaise(_out) THEN [ret |-> _out, calls |-> <<_args>>]
       ELSE [ret |-> Tup(<<partition(_out)[1], Static(partition(_out)[2])>>),
             calls |-> <<_args>>]

\* The callable handed to the primitive, run on shard i: the wrapper's closure
\* _fun_wrapper (over self and static_args), or a user's callable itself.
mapped(fn, a, i, all) ==
    IF fn.kind = "_fun_wrapper"
    THEN fun_wrapper(fn.self, fn.captured, a.items[1], i, all)
    ELSE [ret |-> CallFun(fn.fun, a.items, i, [j \in Shards |-> all[j].items]),
          calls |-> <<a>>]

\* jax.shard_map(fn, mesh=, in_specs=, out_specs=, axis_names=, check_vma=)(*args).
\* mapped(fn, a, i, all) is fn on shard i: [ret |-> what it returns, calls |-> the
\* argument tuples the user's callable saw]; all[j] is what shard j receives (for
\* collectives).
\* The result: [out |-> the value returned or the error raised, calls |-> per shard,
\* what fn reported].
shard_map(fn, mesh, in_specs, out_specs, axis_names, check_vma, args, ambient, pick) ==
    LET m == IF mesh.kind = "none" THEN ambient ELSE mesh
        inerr == SpecError(in_specs, args, m, FALSE, check_vma)
        parts == [i \in Shards |-> ShardOf(in_specs, args, i, NumDevices)]
        runs == [i \in Shards |-> mapped(fn, parts[i], i, parts)]
        outs == [i \in Shards |-> runs[i].ret]
        outerr == SpecError(out_specs, outs[pick], m, TRUE, check_vma)
        ran == [i \in Shards |-> runs[i].calls]
    IN CASE m.kind = "none" -> [out |-> Raise("ValueError:mesh"), calls |-> <<>>]
         [] ~(axis_names \subseteq m.axes) ->
              [out |-> Raise("ValueError:axis_names"), calls |-> <<>>]
         [] inerr # "ok" -> [out |-> Raise(inerr), calls |-> <<>>]
         [] IsRaise(outs[pick]) -> [out |-> outs[pick], calls |-> ran]
         [] outerr # "ok" -> [out |-> Raise(outerr), calls |-> ran]
         [] OTHER -> [out |-> Gather(out_specs, outs, pick), calls |-> ran]

\* The configured in_specs passed on as they are, not in a one-tuple.
prim_in_specs_bare(self) == self._in_specs

\* in_specs=(self._in_specs,)
prim_in_specs(self) == Tup(<<self._in_specs>>)

\* out_specs without the slot of the static output.
prim_out_specs_single(self) == Tup(<<self._out_specs>>)

\* The configured out_specs used for the static slot too.
prim_out_specs_twice(self) == Tup(<<self._out_specs, self._out_specs>>)

\* out_specs=(self._out_specs, jax.sharding.PartitionSpec())
prim_out_specs(self) == Tup(<<self._out_specs, P(<<>>)>>)

\* The keyword arguments and the argument of the one jax.shard_map call.
prim_call(self, args) ==
    [mesh |-> self._mesh, in_specs |-> prim_in_specs(self),
     out_specs |-> prim_out_specs(self), axis_names |-> self._axis_names,
     check_vma |-> self._check_vma, args |-> Tup(<<dynamic_args(args)>>)]

\* A return that forgets to unwrap the Static.
call_return_wrapped(returned) == combine(returned.items[1], returned.items[2])

\* A return that gives back the array output alone.
call_return_dynamic(returned) == returned.items[1]

\* return combine(dynamic_out, static_out.value)
call_return(returned) == combine(returned.items[1], returned.items[2].value)

\* A call that reports a failure of jax.shard_map as an error of its own.
call_outcome_translated(result) ==
    IF IsRaise(result) THEN Raise("RuntimeError:shard_map") ELSE call_return(result)

\* dynamic_out, static_out = jax.shard_map(...)(dynamic_args), then the return: an
\* exception of jax.shard_map leaves __call__ as it is, nothing catches it.
call_outcome(result) ==
    IF IsRaise(result) THEN result ELSE call_return(result)

\* raise RuntimeError("keyword arguments cannot be used with functions wrapped with
\* `filter_shard_map`")
KwargsError == Raise("RuntimeError:kwargs")

\* _ShardMapWrapper.__call__(self, *args, **kwargs), made in the context amb, with pick
\* the shard the primitive takes unsharded results from. What the call does:
\*   outcome      the value returned or the error raised
\*   steps        the steps of the body that ran, in order
\*   prims        the jax.shard_map calls made, in order
\*   prim_result  what jax.shard_map returned or raised (None when it was not called)
\*   calls        per shard, the argument tuples self._fun was called with
call(self, args, kwargs, amb, pick) ==
    IF kwargs_rejected(kwargs)
    THEN [outcome |-> KwargsError, steps |-> <<>>, prims |-> <<>>, prim_result |-> None,
          calls |-> <<>>]
    ELSE LET pc == prim_call(self, args)
             captured == static_args(args)
             r == shard_map([kind |-> "_fun_wrapper", self |-> self, captured |-> captured],
                            pc.mesh, pc.in_specs, pc.out_specs, pc.axis_names,
                            pc.check_vma, pc.args, amb, pick)
         IN [outcome |-> call_outcome(r.out),
             steps |-> IF IsRaise(r.out) THEN <<"partition", "shard_map">>
                       ELSE <<"partition", "shard_map", "combine">>,
             prims |-> <<pc>>, prim_result |-> r.out, calls |-> r.calls]

\* equinox.Partial(func, *args): a callable holding func and the leading arguments.
Partial(func, args) == [kind |-> "partial", func |-> func, args |-> args]

\* A descriptor that keeps the first bound callable it made and hands it out again.
get_cached(self, instance) ==
    IF instance.kind = "none" THEN self
    ELSE IF \E id \in DOMAIN got : got[id].kind = "partial"
         THEN got[CHOOSE id \in DOMAIN got : got[id].kind = "partial"]
         ELSE Partial(self, <<instance>>)

\* _ShardMapWrapper.__get__(self, instance, owner)
get(self, instance) ==
    IF instance.kind = "none" THEN self ELSE Partial(self, <<instance>>)

\* Calling what attribute access gave: the wrapper itself, or
\* Partial.__call__(*args, **kwargs) = self.func(*self.args, *args, **kwargs).
call_got(callable, args, kwargs, amb, pick) ==
    IF callable.kind = "partial"
    THEN call(callable.func, callable.args \o args, kwargs, amb, pick)
    ELSE call(callable, args, kwargs, amb, pick)

\* ------------------------------------------------------- filter_shard_map

KwOr(kw, name, default) == IF name \in DOMAIN kw THEN kw[name] ELSE default

\* A partial that does not pass check_vma on.
partial_keywords_no_vma(out_specs, in_specs, mesh, axis_names, check_vma) ==
    [out_specs |-> out_specs, in_specs |-> in_specs, mesh |-> mesh,
     axis_names |-> axis_names]

\* ft.partial(filter_shard_map, out_specs=..., in_specs=..., mesh=..., axis_names=...,
\* check_vma=...): the keyword arguments it will pass on.
partial_keywords(out_specs, in_specs, mesh, axis_names, check_vma) ==
    [out_specs |-> out_specs, in_specs |-> in_specs, mesh |-> mesh,
     axis_names |-> axis_names, check_vma |-> check_vma]

\* filter_shard_map(fun=sentinel, *, out_specs, in_specs, mesh=None,
\* axis_names=frozenset(), check_vma=True); kw holds the keyword arguments given.
filter_shard_map(fun, kw) ==
    LET out_specs == kw["out_specs"]
        in_specs == kw["in_specs"]
        mesh == KwOr(kw, "mesh", None)
        axis_names == KwOr(kw, "axis_names", {})
        check_vma == KwOr(kw, "check_vma", TRUE)
    IN IF fun = sentinel
       THEN [kind |-> "ft.partial",
             keywords |-> partial_keywords(out_specs, in_specs, mesh, axis_names, check_vma)]
       ELSE ShardMapWrapper(fun, out_specs, in_specs, mesh, axis_names, check_vma)

\* ft.partial(filter_shard_map, **keywords)(fun)
partial_call(p, fun) == filter_shard_map(fun, p.keywords)

\* ------------------------------------------------------------------ inputs

VecLen == NumDevices * PerShard

\* Values a positional argument takes.
ArgValues == {Scalar(2), Ones(4 * NumDevices), Arange(VecLen), Obj("metadata"), None}

\* Values of the positional arguments that come with keyword arguments.
KwArgValues == {Scalar(2), Obj("metadata")}

ArgTuples(V, n) == UNION {[1..k -> V] : k \in 0..n}

\* Keyword arguments of a call, in the order given: none, one, ..., n of them.
KwargsOf(n) ==
    {[k \in 1..m |-> [key |-> "kw" \o ToString(k), value |-> Scalar(2)]] : m \in 0..n}

\* The mesh of the context a call is made in (jax.set_mesh), None outside of one.
Ambients == {None, TheMesh}

InSpecs == {P(<<"batch">>), P(<<>>), Tup(<<P(<<>>), P(<<"batch">>)>>)}
OutSpecs == {P(<<"batch">>), P(<<>>), Tup(<<P(<<"batch">>), P(<<>>)>>)}

\* The keyword arguments of filter_shard_map: out_specs and in_specs always, each of
\* the optional ones (of mesh, axis_names, check_vma) left out or given one of
\* `given`'s values.
KwSets(outs, ins, given, optional) ==
    {[k \in {"out_specs", "in_specs"} \cup opt |->
         CASE k = "out_specs" -> o
           [] k = "in_specs" -> i
           [] k = "mesh" -> m
           [] k = "axis_names" -> a
           [] k = "check_vma" -> c] :
       o \in outs, i \in ins, m \in given.mesh, a \in given.axis_names,
       c \in given.check_vma,
       opt \in SUBSET optional}


Init ==
    /\ wrapper = None
    /\ pending = None
    /\ made = None
    /\ canon \in Shards
    /\ got = [id \in DOMAIN Instances |-> None]
    /\ last = None
    /\ first = None
    /\ bn = None
    /\ state = None
    /\ trained = 0
    /\ ncalls = 0
    /\ bnlast = None

\* wrapped = filter_shard_map(fun, **kw)
Decorate(F, K) ==
    \E fun \in F, kw \in K :
       /\ wrapper.kind = "none"
       /\ pending.kind = "none"
       /\ wrapper' = filter_shard_map(fun, kw)
       /\ made' = [kind |-> "made", fun |-> fun, kw |-> kw, curried |-> FALSE]
       /\ UNCHANGED <<pending, canon, got, last, first>>
       /\ UNCHANGED bnvars

\* decorator = filter_shard_map(**kw)
Configure(K) ==
    \E kw \in K :
       /\ wrapper.kind = "none"
       /\ pending.kind = "none"
       /\ pending' = filter_shard_map(sentinel, kw)
       /\ made' = [kind |-> "made", fun |-> sentinel, kw |-> kw, curried |-> TRUE]
       /\ UNCHANGED <<wrapper, canon, got, last, first>>
       /\ UNCHANGED bnvars

\* wrapped = decorator(fun)
Apply(F) ==
    \E fun \in F :
       /\ wrapper.kind = "none"
       /\ pending.kind = "ft.partial"
       /\ wrapper' = partial_call(pending, fun)
       /\ made' = [made EXCEPT !.fun = fun]
       /\ UNCHANGED <<pending, canon, got, last, first>>
       /\ UNCHANGED bnvars

Called(via, args, kwargs, amb, res, track) ==
    /\ last' = [kind |-> "call", via |-> via, args |-> args, kwargs |-> kwargs, ambient |-> amb,
                res |-> res]
    /\ first' = CASE ~track -> first
                  [] first.kind = "none" ->
                       [kind |-> "call", via |-> via, args |-> args, kwargs |-> kwargs,
                        ambient |-> amb, res |-> res, again |-> FALSE]
                  [] OTHER ->
                       [first EXCEPT !.again = @ \/ (/\ via = first.via
                                                     /\ args = first.args
                                                     /\ kwargs = first.kwargs
                                                     /\ amb = first.ambient)]

\* wrapped(*args, **kwargs), in the context amb
Call(A, KW, track) ==
    \E args \in A, kwargs \in KW, amb \in Ambients :
       /\ wrapper.kind = "wrapper"
       /\ last.kind = "none"
       /\ Called("wrapper", args, kwargs, amb, call(wrapper, args, kwargs, amb, canon), track)
       /\ UNCHANGED <<wrapper, pending, made, canon, got>>
       /\ UNCHANGED bnvars

\* instance.wrapped, or Class.wrapped: the descriptor's __get__
Get ==
    \E id \in DOMAIN Instances :
       /\ wrapper.kind = "wrapper"
       /\ last.kind = "none"
       /\ got' = [got EXCEPT ![id] = get(wrapper, Instances[id])]
       /\ UNCHANGED <<wrapper, pending, made, canon, last, first>>
       /\ UNCHANGED bnvars

\* bound(*args, **kwargs) on what an earlier attribute access returned
CallGot(A, KW, track) ==
    \E id \in DOMAIN Instances, args \in A, kwargs \in KW, amb \in Ambients :
       /\ got[id].kind # "none"
       /\ last.kind = "none"
       /\ Called(id, args, kwargs, amb, call_got(got[id], args, kwargs, amb, canon), track)
       /\ UNCHANGED <<wrapper, pending, made, canon, got>>
       /\ UNCHANGED bnvars

\* The caller has taken the result (or caught the error) and goes on.
Return ==
    /\ last.kind # "none"
    /\ last' = None
    /\ UNCHANGED <<wrapper, pending, made, canon, got, first>>
    /\ UNCHANGED bnvars

\* Wrapping directly and calling: every in_specs and out_specs, with mesh and
\* check_vma left out or given, or with axis_names naming an axis the mesh lacks.
CallKw ==
    KwSets(OutSpecs, InSpecs,
           [mesh |-> {TheMesh}, axis_names |-> {{"model"}}, check_vma |-> {FALSE}],
           {"mesh", "check_vma"})
    \cup KwSets(OutSpecs, InSpecs,
                [mesh |-> {TheMesh}, axis_names |-> {{"model"}}, check_vma |-> {FALSE}],
                {"axis_names"})

Next ==
    \/ Decorate(FunNames, CallKw)
    \/ Call(ArgTuples(ArgValues, MaxArgs), {<<>>}, FALSE)
    \/ Call(ArgTuples(KwArgValues, MaxArgs), KwargsOf(MaxKwargs) \ {<<>>}, FALSE)
    \/ Return

Spec == Init /\ [][Next]_vars

\* Both shapes of the factory, over the configurations with each optional keyword
\* left out or given.
FactoryKw ==
    KwSets(OutSpecs, InSpecs,
           [mesh |-> {None, TheMesh}, axis_names |-> {{}, {"batch"}},
            check_vma |-> {TRUE, FALSE}],
           {"mesh", "axis_names", "check_vma"})

NextFactory ==
    \/ Decorate(FunNames, FactoryKw)
    \/ Configure(FactoryKw)
    \/ Apply(FunNames)

SpecFactory == Init /\ [][NextFactory]_vars

\* A wrapper used as a method: attribute access from two instances and from the
\* class, and calls of what it gave, in any order.
BindKw ==
    KwSets({P(<<>>), P(<<"batch">>)}, {P(<<>>), Tup(<<P(<<>>), P(<<"batch">>)>>)},
           [mesh |-> {TheMesh}, axis_names |-> {{}}, check_vma |-> {TRUE}], {"mesh"})

BindArgs == ArgTuples({Arange(VecLen), Obj("metadata")}, MaxArgs)

NextBind ==
    \/ Decorate({"ident", "mul"}, BindKw)
    \/ Get
    \/ Call(BindArgs, KwargsOf(1), FALSE)
    \/ CallGot(BindArgs, KwargsOf(1), FALSE)
    \/ Return

SpecBind == Init /\ [][NextBind]_vars

\* A wrapper used again and again, the first call kept to compare the later ones with.
ReuseKw ==
    KwSets({P(<<>>)}, {P(<<>>), Tup(<<P(<<>>), P(<<"batch">>)>>)},
           [mesh |-> {TheMesh}, axis_names |-> {{}}, check_vma |-> {TRUE}], {"mesh"})

ReuseArgs == ArgTuples({Arange(VecLen), Obj("metadata")}, 1)

NextReuse ==
    \/ Decorate({"ident"}, ReuseKw)
    \/ Get
    \/ Call(ReuseArgs, KwargsOf(1), TRUE)
    \/ CallGot(ReuseArgs, KwargsOf(1), TRUE)
    \/ Return

SpecReuse == Init /\ [][NextReuse]_vars

\* ------------------------------------------------------------------ claims

IsCall == last.kind = "call"

Succeeded == IsCall /\ ~IsRaise(last.res.outcome)

\* C1: a call with keyword arguments, whatever the number of positional arguments,
\* fails with the invalid-invocation error before anything else has happened: no
\* partition, no jax.shard_map call, no call of the wrapped function.
C1_KwargsRejected ==
    (IsCall /\ last.kwargs # <<>>) =>
        /\ last.res.outcome = KwargsError
        /\ last.res.steps = <<>>
        /\ last.res.prims = <<>>
        /\ last.res.prim_result = None
        /\ last.res.calls = <<>>

\* C1 happens: one keyword argument beside MaxArgs positional ones, rejected.
C1_Witness ==
    /\ IsCall
    /\ Len(last.kwargs) = 1
    /\ Len(last.args) = MaxArgs
    /\ last.res.outcome = KwargsError

RECURSIVE Skeleton(_)
\* The shape of a tree and its non-array leaves: every array becomes the same mark.
Skeleton(tree) ==
    CASE tree.kind = "tuple" ->
           Tup([k \in 1..Len(tree.items) |-> Skeleton(tree.items[k])])
      [] tree.kind = "arr" -> [kind |-> "arr"]
      [] OTHER -> tree

\* fun(*args) applied directly, with no wrapper and no mesh (a collective then finds
\* the whole input on its one shard).
Direct(fun, args) == CallFun(fun, args, 1, [j \in Shards |-> args])

\* What the wrapped callable returned on shard i of the latest call, from the
\* arguments it was called with there.
OnShard(i) ==
    CallFun(wrapper._fun, last.res.calls[i][1].items, i,
            [j \in Shards |-> last.res.calls[j][1].items])

\* The wrapped callable ran on every shard and returned.
FunReturned ==
    /\ IsCall
    /\ last.res.calls # <<>>
    /\ \A i \in Shards : ~IsRaise(OnShard(i))

\* Its non-array output was the same on every shard.
SameStaticOut == \A i, j \in Shards : filter(OnShard(i), TRUE) = filter(OnShard(j), TRUE)

\* C2: when the wrapped callable returns the same non-array output on every shard,
\* the result of a call has the tree shape of fun(*args) and, position by position,
\* its non-array leaves.
C2_NonArrayPassthrough ==
    (/\ Succeeded
     /\ last.via = "wrapper"
     /\ FunReturned
     /\ SameStaticOut
     /\ ~IsRaise(Direct(wrapper._fun, last.args))) =>
        /\ Skeleton(last.res.outcome) = Skeleton(Direct(wrapper._fun, last.args))
        /\ filter(last.res.outcome, TRUE) = filter(Direct(wrapper._fun, last.args), TRUE)

\* C2 happens: the callable returning its arguments gets an array and a string, and
\* the string comes back unchanged next to the array.
C2_Witness ==
    /\ Succeeded
    /\ wrapper._fun = "ident"
    /\ last.args = <<Arange(VecLen), Obj("metadata")>>
    /\ last.res.outcome = Tup(<<Arange(VecLen), Obj("metadata")>>)

\* jax.shard_map(fun, mesh=, in_specs=, out_specs=, axis_names=, check_vma=)(*args):
\* the primitive applied to the callable itself.
DirectShardMap(self, args, amb) ==
    shard_map([kind |-> "fun", fun |-> self._fun],
              self._mesh, self._in_specs, self._out_specs, self._axis_names,
              self._check_vma, Tup(args), amb, canon).out

\* C3: for a callable and arguments without non-array leaves, in arguments and
\* output, the wrapper returns (or raises) what the primitive applied directly to
\* the callable with the same configuration returns (or raises).
C3_EqualsDirectShardMap ==
    (/\ IsCall
     /\ last.via = "wrapper"
     /\ last.kwargs = <<>>
     /\ ~HasObjLeaf(Tup(last.args))
     /\ ~HasObjLeaf(Direct(wrapper._fun, last.args))) =>
        last.res.outcome = DirectShardMap(wrapper, last.args, last.ambient)

\* C3 happens: test_basic_sharding, x * w with w replicated and x sharded.
C3_Witness ==
    /\ Succeeded
    /\ wrapper._fun = "mul"
    /\ wrapper._in_specs = Tup(<<P(<<>>), P(<<"batch">>)>>)
    /\ wrapper._out_specs = P(<<"batch">>)
    /\ last.args = <<Scalar(2), Arange(VecLen)>>
    /\ last.res.outcome = Arr(1, [k \in 1..VecLen |-> 2 * (k - 1)], FALSE)

\* The arguments the wrapper itself was called with in the latest call: those of a
\* bound callable come after the instance it was bound to.
FullArgs(c) == IF c.via \in {"o1", "o2"} THEN <<Instances[c.via]>> \o c.args ELSE c.args

\* C4: attribute access from an instance gives a callable bound to that instance and
\* to no other, whatever was bound before or called in between: calling it is calling
\* the wrapper with the instance first; access through the class gives the wrapper.
C4_BoundIndependently ==
    /\ \A id \in {"o1", "o2"} :
          got[id].kind # "none" => got[id] = Partial(wrapper, <<Instances[id]>>)
    /\ got["class"].kind # "none" => got["class"] = wrapper
    /\ IsCall =>
          last.res = call(wrapper, FullArgs(last), last.kwargs, last.ambient, canon)

\* C4 happens: both instances are bound, and the callable of the second, called with
\* x, gave the wrapped callable (owner2, x).
C4_Witness ==
    /\ got["o1"].kind = "partial"
    /\ got["o2"].kind = "partial"
    /\ IsCall
    /\ last.via = "o2"
    /\ wrapper._fun = "ident"
    /\ last.args = <<Arange(VecLen)>>
    /\ last.res.outcome = Tup(<<Owner2, Arange(VecLen)>>)

\* The value of a keyword argument of the factory, or its default when left out.
GivenOr(name, default) == IF name \in DOMAIN made.kw THEN made.kw[name] ELSE default

\* C5: filter_shard_map(**kw)(fun) and filter_shard_map(fun, **kw) make the same
\* wrapper: the callable and the five values given, with mesh None, axis_names empty
\* and check_vma true where left out.
C5_FactoryShapesAgree ==
    wrapper.kind = "wrapper" =>
        /\ wrapper = ShardMapWrapper(made.fun, made.kw["out_specs"], made.kw["in_specs"],
                                     GivenOr("mesh", None), GivenOr("axis_names", {}),
                                     GivenOr("check_vma", TRUE))
        /\ made.curried =>
              /\ pending.kind = "ft.partial"
              /\ wrapper = filter_shard_map(made.fun, made.kw)

\* C5 happens: the curried shape, with check_vma given and mesh and axis_names left out.
C5_Witness ==
    /\ wrapper.kind = "wrapper"
    /\ made.curried
    /\ DOMAIN made.kw = {"out_specs", "in_specs", "check_vma"}
    /\ wrapper._check_vma = FALSE
    /\ wrapper._mesh = None
    /\ wrapper._axis_names = {}

\* The mesh the primitive runs on in the latest call.
MeshOfCall == IF wrapper._mesh.kind = "none" THEN last.ambient ELSE wrapper._mesh

\* C6: the factory returns a wrapper whatever specs and mesh it is given; of a call's
\* errors only the keyword-argument rejection is the wrapper's own; whatever the
\* primitive raises (none of it before the call) reaches the caller as it is.
C6_OnlyKwargsValidated ==
    /\ (made.kind = "made" /\ made.fun # sentinel) => wrapper.kind = "wrapper"
    /\ IsCall => (last.res.outcome = KwargsError <=> last.kwargs # <<>>)
    /\ (IsCall /\ last.kwargs = <<>>) =>
          /\ Len(last.res.prims) = 1
          /\ IsRaise(last.res.prim_result) => last.res.outcome = last.res.prim_result
          /\ IsRaise(last.res.outcome) => last.res.outcome = last.res.prim_result
          /\ MeshOfCall.kind = "none" => last.res.outcome = Raise("ValueError:mesh")
          /\ (/\ MeshOfCall.kind = "mesh"
              /\ wrapper._axis_names \subseteq MeshOfCall.axes
              /\ ~IsPrefix(wrapper._in_specs, Tup(last.args))) =>
                 last.res.outcome = Raise("ValueError:prefix")

\* C6 happens: in_specs for two arguments were accepted by the factory, and the call
\* with one argument fails with the primitive's error.
C6_Witness ==
    /\ IsCall
    /\ wrapper._in_specs = Tup(<<P(<<>>), P(<<"batch">>)>>)
    /\ last.args = <<Arange(VecLen)>>
    /\ last.kwargs = <<>>
    /\ last.res.prim_result = Raise("ValueError:prefix")
    /\ last.res.outcome = Raise("ValueError:prefix")

\* C7: calls and attribute accesses leave the wrapper as it was made; a call like the
\* first one (same callable called, same arguments, same context) gives what the
\* first one gave; the wrapped callable sees the non-array arguments of the call it
\* is in, of no other.
C7_ImmutableReusable ==
    wrapper.kind = "wrapper" =>
        /\ wrapper = ShardMapWrapper(made.fun, made.kw["out_specs"], made.kw["in_specs"],
                                     GivenOr("mesh", None), GivenOr("axis_names", {}),
                                     GivenOr("check_vma", TRUE))
        /\ (/\ IsCall
            /\ first.kind = "call"
            /\ last.via = first.via
            /\ last.args = first.args
            /\ last.kwargs = first.kwargs
            /\ last.ambient = first.ambient) => last.res = first.res
        /\ (IsCall /\ last.res.calls # <<>>) =>
              \A i \in Shards :
                 filter(last.res.calls[i][1], TRUE) = filter(Tup(FullArgs(last)), TRUE)

\* C7 happens: the first call, made with a string, was made again after an
\* attribute access, and gave the string back again.
C7_Witness ==
    /\ Succeeded
    /\ first.kind = "call"
    /\ first.again
    /\ got["o1"].kind = "partial"
    /\ first.via = "wrapper"
    /\ first.args = <<Obj("metadata")>>
    /\ last.via = first.via
    /\ last.args = first.args
    /\ last.kwargs = first.kwargs
    /\ last.ambient = first.ambient
    /\ last.res.outcome = Tup(<<Obj("metadata")>>)

\* C8: on the one-axis mesh, psum(sum(x), "batch") with in_specs sharding over "batch"
\* and out_specs replicated gives, for x evenly sharded, one scalar: the sum of all
\* of x, the same on every shard; 4N for 4N ones.
C8_CollectiveSum ==
    (/\ IsCall
     /\ last.via = "wrapper"
     /\ last.kwargs = <<>>
     /\ wrapper._fun = "psum_sum"
     /\ wrapper._in_specs = P(<<"batch">>)
     /\ wrapper._out_specs = P(<<>>)
     /\ MeshOfCall = TheMesh
     /\ wrapper._axis_names \subseteq TheMesh.axes
     /\ Len(last.args) = 1
     /\ is_array(last.args[1])
     /\ last.args[1].dims = 1
     /\ Len(last.args[1].data) % NumDevices = 0) =>
        /\ last.res.outcome = Scalar(SumSeq(last.args[1].data))
        /\ \A i \in Shards : OnShard(i) = Scalar(SumSeq(last.args[1].data))
        /\ last.args[1] = Ones(4 * NumDevices) => last.res.outcome = Scalar(4 * NumDevices)

\* C8 happens: test_collectives, 4N ones give 4N.
C8_Witness ==
    /\ IsCall
    /\ wrapper._fun = "psum_sum"
    /\ wrapper._check_vma
    /\ last.args = <<Ones(4 * NumDevices)>>
    /\ last.res.outcome = Scalar(4 * NumDevices)

\* C9: a call that returns made exactly one jax.shard_map call, with in_specs the
\* one-tuple of the configured in_specs, out_specs the pair (configured out_specs,
\* PartitionSpec()), and the configured mesh, axis_names and check_vma; its one
\* argument is the array part of args; the wrapped callable got, on every shard, a
\* tuple with the shape and the non-array leaves of args; the non-array output came
\* back as one Static, whole.
C9_SingleDispatch ==
    (Succeeded /\ last.via = "wrapper") =>
        LET pc == last.res.prims[1]
            back == last.res.prim_result
        IN /\ Len(last.res.prims) = 1
           /\ pc.in_specs = Tup(<<wrapper._in_specs>>)
           /\ pc.out_specs = Tup(<<wrapper._out_specs, P(<<>>)>>)
           /\ pc.mesh = wrapper._mesh
           /\ pc.axis_names = wrapper._axis_names
           /\ pc.check_vma = wrapper._check_vma
           /\ pc.args = Tup(<<filter(Tup(last.args), FALSE)>>)
           /\ ~HasObjLeaf(pc.args)
           /\ \A i \in Shards :
                 /\ Len(last.res.calls[i]) = 1
                 /\ Skeleton(last.res.calls[i][1]) = Skeleton(Tup(last.args))
           /\ ~HasObjLeaf(back.items[1])
           /\ back.items[2] = Static(filter(OnShard(canon), TRUE))

\* C9 happens: test_non_array_output, with out_specs that shard the array output.
C9_Witness ==
    /\ Succeeded
    /\ wrapper._fun = "add1_meta"
    /\ wrapper._out_specs = Tup(<<P(<<"batch">>), P(<<>>)>>)
    /\ last.res.prim_result.items[2] = Static(Tup(<<None, Obj("metadata")>>))
    /\ last.res.outcome.items[2] = Obj("metadata")

\* C10: when the wrapped callable's non-array output differs from shard to shard,
\* the wrapper raises nothing of its own: unless the primitive raises, the call
\* returns, and the non-array part of the result is that of exactly one shard.
C10_DivergenceUnchecked ==
    (/\ IsCall
     /\ last.via = "wrapper"
     /\ FunReturned
     /\ ~SameStaticOut) =>
        /\ IsRaise(last.res.outcome) => last.res.outcome = last.res.prim_result
        /\ ~IsRaise(last.res.prim_result) =>
              /\ ~IsRaise(last.res.outcome)
              /\ \E i \in Shards :
                    filter(last.res.outcome, TRUE) = filter(OnShard(i), TRUE)

\* C10 happens: each shard returns its own tag and the call returns the last shard's.
C10_Witness ==
    /\ Succeeded
    /\ wrapper._fun = "shard_tag"
    /\ canon = NumDevices
    /\ last.args = <<Arange(VecLen)>>
    /\ last.res.outcome = Tup(<<Arange(VecLen), Obj("shard" \o ToString(NumDevices))>>)

\* ------------------------------------------------------------- BatchNorm
\* equinox.nn.BatchNorm: the layer, the State it reads and returns, and a call.

MaxCalls == 3      \* calls made on one layer
InputSize == 1     \* channels
BatchSize == 2     \* samples under the vmap that names the batch axis

\* The largest value of the counter's type, a 32-bit integer array.
INT32_MAX == 2147483647

\* Floating-point values, kept exact as fractions in lowest terms; NaN stands for
\* a value that is not finite.
RECURSIVE GCD(_, _)
GCD(a, b) == IF b = 0 THEN a ELSE GCD(b, a % b)

Abs(a) == IF a < 0 THEN -a ELSE a

NaN == [n |-> 0, d |-> 0]

IsNaN(a) == a.d = 0

Rat(n, d) ==
    IF d = 0 THEN NaN
    ELSE LET g == GCD(Abs(n), Abs(d))
             sgn == IF d < 0 THEN -1 ELSE 1
         IN [n |-> (sgn * n) \div g, d |-> (sgn * d) \div g]

Float(v) == [n |-> v, d |-> 1]

RAdd(a, b) == IF IsNaN(a) \/ IsNaN(b) THEN NaN ELSE Rat(a.n * b.d + b.n * a.d, a.d * b.d)

RSub(a, b) == IF IsNaN(a) \/ IsNaN(b) THEN NaN ELSE Rat(a.n * b.d - b.n * a.d, a.d * b.d)

RMul(a, b) == IF IsNaN(a) \/ IsNaN(b) THEN NaN ELSE Rat(a.n * b.n, a.d * b.d)

RDiv(a, b) == IF IsNaN(a) \/ IsNaN(b) THEN NaN ELSE Rat(a.n * b.d, a.d * b.n)

RMax(a, b) ==
    IF IsNaN(a) \/ IsNaN(b) THEN NaN ELSE IF a.n * b.d >= b.n * a.d THEN a ELSE b

\* decay ** k
RECURSIVE RPow(_, _)
RPow(a, k) ==
    IF k = 0 THEN Float(1)
    ELSE IF k < 0 THEN RDiv(Float(1), RPow(a, -k))
    ELSE RMul(a, RPow(a, k - 1))

RECURSIVE RSum(_)
RSum(ys) == IF ys = <<>> THEN Float(0) ELSE RAdd(ys[1], RSum(Tail(ys)))

\* jnp.mean over the batch axis: the local mean of one sample, then lax.pmean.
pmean(ys) == RDiv(RSum(ys), Float(Len(ys)))

\* lax.select(pred, on_true, on_false)
select(pred, on_true, on_false) == IF pred THEN on_true ELSE on_false

\* counter + 1 on a 32-bit integer array
int32_add1(counter) == IF counter = INT32_MAX THEN -INT32_MAX - 1 ELSE counter + 1

Channels == 1..InputSize

\* _stats(y) for one channel, ys[k] the channel's value in sample k of the batch.
stats(ys) ==
    LET mean == pmean(ys)
        sq == [k \in 1..Len(ys) |-> RMul(RSub(ys[k], mean), RSub(ys[k], mean))]
        var == RMax(Float(0), pmean(sq))
    IN <<mean, var>>

\* jax.vmap(_stats)(x): <<batch_mean, batch_var>>, one entry per channel.
vmap_stats(x) ==
    <<[c \in Channels |-> stats(x[c])[1]], [c \in Channels |-> stats(x[c])[2]]>>

\* _norm(y, m, v, w, b): (y - m) / sqrt(v + eps), then * w + b with the affine
\* parameters; the square root is left standing over its operands.
norm(self, y, m, v, w, b) ==
    LET out == [kind |-> "normed", num |-> RSub(y, m), var |-> v, eps |-> self.eps]
    IN IF self.channelwise_affine THEN [kind |-> "affine", of |-> out, w |-> w, b |-> b]
       ELSE out

\* jax.vmap(_norm)(x, mean, var, self.weight, self.bias), for every sample.
vmap_norm(self, x, mean, var) ==
    [c \in Channels |->
       [k \in 1..Len(x[c]) |->
          norm(self, x[c][k], mean[c], var[c],
               IF self.channelwise_affine THEN self.weight[c] ELSE None,
               IF self.channelwise_affine THEN self.bias[c] ELSE None)]]

\* StateIndex(init): a marker naming one entry of a State, with its initial value.
StateIndex(name, init) == [kind |-> "StateIndex", name |-> name, init |-> init]

\* The State of a model: the initial value of every StateIndex the model holds.
State(model) ==
    LET held == {f \in {"ema_first_time_index", "ema_state_index", "batch_counter",
                        "batch_state_index"} : model[f].kind = "StateIndex"}
    IN [name \in held |-> model[name].init]

\* state.get(index)
state_get(st, index) == st[index.name]

\* state.set(index, value): a new State, the one given left as it was
state_set(st, index, value) == [st EXCEPT ![index.name] = value]

Full(v) == [c \in Channels |-> v]

\* BatchNorm(input_size, axis_name, mode, eps, channelwise_affine, momentum,
\* inference); empty is what the two buffers of jnp.empty happen to hold.
BatchNorm(mode, eps, channelwise_affine, momentum, inference, empty) ==
    IF mode \notin {"ema", "batch"} THEN Raise("ValueError:mode")
    ELSE [kind |-> "BatchNorm",
          mode |-> mode,
          weight |-> IF channelwise_affine THEN Full(Float(1)) ELSE None,
          bias |-> IF channelwise_affine THEN Full(Float(0)) ELSE None,
          ema_first_time_index |->
              IF mode = "ema" THEN StateIndex("ema_first_time_index", TRUE) ELSE None,
          ema_state_index |->
              IF mode = "ema"
              THEN StateIndex("ema_state_index", <<Full(empty[1]), Full(empty[2])>>)
              ELSE None,
          batch_counter |->
              IF mode = "ema" THEN None ELSE StateIndex("batch_counter", 0),
          batch_state_index |->
              IF mode = "ema" THEN None
              ELSE StateIndex("batch_state_index",
                              << <<Full(Float(0)), Full(Float(1))>>,
                                 <<Full(Float(0)), Full(Float(1))>> >>),
          inference |-> inference,
          axis_name |-> "batch",
          input_size |-> InputSize,
          eps |-> eps,
          channelwise_affine |-> channelwise_affine,
          momentum |-> momentum]

\* if inference is None: inference = self.inference. The keyword is "None", "True"
\* or "False".
resolve_inference(self, inference) ==
    IF inference = "None" THEN self.inference ELSE inference = "True"

\* (1 - momentum) * batch + momentum * running, per channel
ema_blend(momentum, batch, running) ==
    [c \in Channels |->
       RAdd(RMul(RSub(Float(1), momentum), batch[c]), RMul(momentum, running[c]))]

\* The blend stored whether or not this is the first training call.
ema_select_blend(first_time, batch, blended) == blended

\* lax.select(first_time, batch, running), per channel
ema_select(first_time, batch, blended) ==
    [c \in Channels |-> select(first_time, batch[c], blended[c])]

\* hidden * decay + batch * (one - decay), per channel
batch_hidden(hidden, decay, batch) ==
    [c \in Channels |->
       RAdd(RMul(hidden[c], decay), RMul(batch[c], RSub(Float(1), decay)))]

\* The power taken with the counter as it was read, not yet incremented.
batch_decay_power_read(decay, counter, new_counter) == RPow(decay, counter)

\* decay_power = decay**new_counter
batch_decay_power(decay, counter, new_counter) == RPow(decay, new_counter)

\* new_hidden / (one - decay_power), per channel
batch_average(new_hidden, decay_power) ==
    [c \in Channels |-> RDiv(new_hidden[c], RSub(Float(1), decay_power))]

\* The branch of __call__ for mode "ema": [out, state].
call_ema(self, x, st, inference) ==
    IF inference
    THEN LET running == state_get(st, self.ema_state_index)
         IN [out |-> vmap_norm(self, x, running[1], running[2]), state |-> st]
    ELSE LET first_time == state_get(st, self.ema_first_time_index)
             st1 == state_set(st, self.ema_first_time_index, FALSE)
             batch == vmap_stats(x)
             running == state_get(st1, self.ema_state_index)
             momentum == self.momentum
             running_mean == ema_select(first_time, batch[1],
                                        ema_blend(momentum, batch[1], running[1]))
             running_var == ema_select(first_time, batch[2],
                                       ema_blend(momentum, batch[2], running[2]))
             st2 == state_set(st1, self.ema_state_index, <<running_mean, running_var>>)
         IN [out |-> vmap_norm(self, x, running_mean, running_var), state |-> st2]

\* The branch of __call__ for mode "batch": [out, state].
call_batch(self, x, st, inference) ==
    IF inference
    THEN LET average == state_get(st, self.batch_state_index)[2]
         IN [out |-> vmap_norm(self, x, average[1], average[2]), state |-> st]
    ELSE LET batch == vmap_stats(x)
             counter == state_get(st, self.batch_counter)
             hidden == state_get(st, self.batch_state_index)[1]
             decay == self.momentum
             new_hidden_mean == batch_hidden(hidden[1], decay, batch[1])
             new_hidden_var == batch_hidden(hidden[2], decay, batch[2])
             new_counter == int32_add1(counter)
             decay_power == batch_decay_power(decay, counter, new_counter)
             new_running_mean == batch_average(new_hidden_mean, decay_power)
             new_running_var == batch_average(new_hidden_var, decay_power)
             st1 == state_set(st, self.batch_counter, new_counter)
             new_state_data == << <<new_hidden_mean, new_hidden_var>>,
                                  <<new_running_mean, new_running_var>> >>
             st2 == state_set(st1, self.batch_state_index, new_state_data)
         IN [out |-> vmap_norm(self, x, batch[1], batch[2]), state |-> st2]

\* BatchNorm.__call__(x, state, inference=...): [out, state].
batchnorm_call(self, x, st, inference) ==
    LET inf == resolve_inference(self, inference)
    IN IF self.mode = "ema" THEN call_ema(self, x, st, inf)
       ELSE call_batch(self, x, st, inf)

\* The layers made and the batches fed to them.
Momenta == {Rat(1, 2), Rat(1, 3)}

Eps == Rat(1, 100000)

\* What a buffer of jnp.empty may hold.
Uninit == {Float(0), Float(5), NaN}

\* x[c][k]: channel c of sample k; a constant batch, and two with a spread.
XValues ==
    {[c \in Channels |-> [k \in 1..BatchSize |-> Float(a[1] * k + a[2] + c - 1)]] :
        a \in {<<0, 0>>, <<1, 0>>, <<2, 1>>}}

InferenceValues == {"None", "True", "False"}

\* layer = BatchNorm(...); state = State(layer)
Construct(M) ==
    \E mode \in M, momentum \in Momenta, affine \in BOOLEAN, inference \in BOOLEAN,
       u \in Uninit :
       /\ bn.kind = "none"
       /\ LET layer == BatchNorm(mode, Eps, affine, momentum, inference, <<u, u>>)
          IN /\ bn' = layer
             /\ state' = State(layer)
       /\ UNCHANGED <<trained, ncalls, bnlast>>
       /\ UNCHANGED <<wrapper, pending, made, canon, got, last, first>>

\* out, state = layer(x, state, inference=...), under the vmap over the batch
CallLayer ==
    \E x \in XValues, inference \in InferenceValues :
       /\ bn.kind = "BatchNorm"
       /\ ncalls < MaxCalls
       /\ LET r == batchnorm_call(bn, x, state, inference)
          IN /\ state' = r.state
             /\ bnlast' = [kind |-> "call", x |-> x, inference |-> inference,
                           before |-> state, out |-> r.out, after |-> r.state,
                           trained_before |-> trained]
       /\ trained' = IF resolve_inference(bn, inference) THEN trained ELSE trained + 1
       /\ ncalls' = ncalls + 1
       /\ UNCHANGED bn
       /\ UNCHANGED <<wrapper, pending, made, canon, got, last, first>>

InitLayer == Init /\ canon = 1

NextEma == Construct({"ema"}) \/ CallLayer

SpecEma == InitLayer /\ [][NextEma]_vars

NextBatch == Construct({"batch"}) \/ CallLayer

SpecBatch == InitLayer /\ [][NextBatch]_vars

\* ---------------------------------------------------------------- C11

IsLayerCall == bn.kind = "BatchNorm" /\ bnlast.kind = "call"

\* The last call ran with inference false, by its keyword or by the layer's field.
LastTrained ==
    bnlast.inference = "False" \/ (bnlast.inference = "None" /\ ~bn.inference)

\* C11: in mode "ema", with the State threaded from call to call, the first-time
\* flag is true until the first training call and false ever after; the first
\* training call stores the batch mean and variance themselves and clears the flag,
\* every later one stores (1 - momentum) * batch + momentum * running, and an
\* inference call returns the State it was given.
C11_EmaFirstTime ==
    (bn.kind = "BatchNorm" /\ bn.mode = "ema") =>
        /\ state.ema_first_time_index = (trained = 0)
        /\ IsLayerCall =>
             LET b == bnlast.before
                 a == bnlast.after
                 batch == vmap_stats(bnlast.x)
                 m == bn.momentum
                 blend == [i \in 1..2 |->
                             [c \in Channels |->
                                RAdd(RMul(RSub(Float(1), m), batch[i][c]),
                                     RMul(m, b.ema_state_index[i][c]))]]
             IN /\ state = a
                /\ (~b.ema_first_time_index => ~a.ema_first_time_index)
                /\ ~LastTrained => a = b
                /\ LastTrained =>
                     /\ a.ema_first_time_index = FALSE
                     /\ b.ema_first_time_index => a.ema_state_index = batch
                     /\ ~b.ema_first_time_index =>
                            a.ema_state_index = <<blend[1], blend[2]>>

\* Three calls: one of them an inference call, then the first training call, then
\* a training call that blends a batch with spread into different running values.
C11_Witness ==
    /\ IsLayerCall
    /\ bn.mode = "ema"
    /\ ncalls = 3
    /\ trained = 2
    /\ LastTrained
    /\ bnlast.trained_before = 1
    /\ bnlast.after.ema_state_index # bnlast.before.ema_state_index
    /\ bnlast.after.ema_state_index # vmap_stats(bnlast.x)
    /\ ~IsNaN(bnlast.after.ema_state_index[2][1])
    /\ bnlast.after.ema_state_index[2][1] # Float(0)

\* ---------------------------------------------------------------- C12

\* Every sample of every channel of out is x normalised with mean and var.
NormalisedWith(out, x, mean, var) ==
    \A c \in Channels, k \in 1..BatchSize :
       LET o == IF out[c][k].kind = "affine" THEN out[c][k].of ELSE out[c][k]
       IN o.num = RSub(x[c][k], mean[c]) /\ o.var = var[c]

\* C12: in mode "batch", with the State threaded from call to call, the counter is
\* the number of training calls made; a training call stores
\* hidden' = hidden * momentum + batch * (1 - momentum) and
\* hidden' / (1 - momentum^counter') with counter' the incremented counter, which
\* is at least 1 so that the divisor is not 0, and normalises with the batch
\* statistics; an inference call returns the State it was given and normalises
\* with the stored running average.
C12_BatchCounter ==
    (bn.kind = "BatchNorm" /\ bn.mode = "batch") =>
        /\ state.batch_counter = trained
        /\ IsLayerCall =>
             LET b == bnlast.before
                 a == bnlast.after
                 batch == vmap_stats(bnlast.x)
                 m == bn.momentum
                 counter1 == b.batch_counter + 1
                 divisor == RSub(Float(1), RPow(m, counter1))
                 hidden1 == [i \in 1..2 |->
                               [c \in Channels |->
                                  RAdd(RMul(b.batch_state_index[1][i][c], m),
                                       RMul(batch[i][c], RSub(Float(1), m)))]]
                 average1 == [i \in 1..2 |->
                                [c \in Channels |-> RDiv(hidden1[i][c], divisor)]]
             IN /\ state = a
                /\ ~LastTrained =>
                     /\ a = b
                     /\ NormalisedWith(bnlast.out, bnlast.x, b.batch_state_index[2][1],
                                       b.batch_state_index[2][2])
                /\ LastTrained =>
                     /\ a.batch_counter = counter1
                     /\ counter1 >= 1
                     /\ divisor # Float(0)
                     /\ ~IsNaN(divisor)
                     /\ a.batch_state_index =
                           << <<hidden1[1], hidden1[2]>>, <<average1[1], average1[2]>> >>
                     /\ NormalisedWith(bnlast.out, bnlast.x, batch[1], batch[2])

\* Three calls, one of them an inference call: the second training call, on a
\* batch with spread, stores an average that differs from the hidden value by the
\* division.
C12_Witness ==
    /\ IsLayerCall
    /\ bn.mode = "batch"
    /\ ncalls = 3
    /\ trained = 2
    /\ LastTrained
    /\ bnlast.before.batch_counter = 1
    /\ state.batch_counter = 2
    /\ state.batch_state_index[2] # state.batch_state_index[1]
    /\ state.batch_state_index[2][2][1] # Float(0)
    /\ state.batch_state_index[2] # vmap_stats(bnlast.x)

====
